---- MODULE Spec2Model ----
(***************************************************************************)
(* EduDebts (src/main.py): five tables (faculties, groups, subjects,       *)
(* students, debts) behind a FastAPI application.  Every handler opens a   *)
(* session, issues its statements, commits and answers; the model has one  *)
(* action per handler.  The backing store is the PostgreSQL database named *)
(* by DATABASE_URL: serial primary keys, the NOT NULL and FOREIGN KEY      *)
(* constraints that the Column declarations produce, and result sets whose *)
(* row order is unspecified when the statement has no ORDER BY.            *)
(***************************************************************************)
EXTENDS Integers, Sequences, FiniteSets, TLC

\* Number of requests served in one explored behaviour.
MaxOps == 3

\* Python's None / SQL NULL in an integer or date column, and in a text column.
NullInt == 0
NullStr == "NULL"

VARIABLES faculties, groups, subjects, students, debts, nextId, response, ops

tables == <<faculties, groups, subjects, students, debts>>
vars == <<faculties, groups, subjects, students, debts, nextId, response, ops>>

----------------------------------------------------------------------------
\* Request bodies the clients send.  A field that is absent from the record
\* was left out of the JSON body.

FacultyPayloads ==
  { [name |-> "Math"], [name |-> "Physics"] }

GroupPayloads ==
  { [name |-> "G1", faculty_id |-> 1],
    [name |-> "G2"] }

SubjectPayloads ==
  { [name |-> "Algebra", group_id |-> 1],
    [name |-> "Optics"] }

StudentPayloads ==
  { [first_name |-> "Ivan", last_name |-> "Petrov", patronymic |-> "Ilyich",
     record_book_number |-> "RB1", phone |-> "555", email |-> "ip@edu",
     group_id |-> 1, date_of_birth |-> 1],
    [first_name |-> "Ivan", last_name |-> "Petrov", record_book_number |-> "RB2",
     group_id |-> 1],
    [first_name |-> "Anna", last_name |-> "Belova", record_book_number |-> "RB3"] }

DebtPayloads ==
  { [student_id |-> 1, subject_id |-> 1, date_occurred |-> 1],
    [student_id |-> 2, subject_id |-> 1, reason |-> "exam", date_occurred |-> 2,
     status |-> "settled"],
    [student_id |-> 1, subject_id |-> 1, reason |-> "lab", status |-> NullStr],
    [student_id |-> 1, subject_id |-> 2, status |-> "active"] }

----------------------------------------------------------------------------
\* Pydantic models: a body is parsed into a dict that holds every declared
\* field, an absent Optional field taking its declared default.

Field(p, f, default) == IF f \in DOMAIN p THEN p[f] ELSE default

FacultyBase(p) == [name |-> p.name]

GroupBase(p) == [name |-> p.name, faculty_id |-> Field(p, "faculty_id", NullInt)]

SubjectBase(p) == [name |-> p.name, group_id |-> Field(p, "group_id", NullInt)]

StudentBase(p) ==
  [first_name |-> p.first_name,
   last_name |-> p.last_name,
   patronymic |-> Field(p, "patronymic", NullStr),
   record_book_number |-> p.record_book_number,
   phone |-> Field(p, "phone", NullStr),
   email |-> Field(p, "email", NullStr),
   group_id |-> Field(p, "group_id", NullInt),
   date_of_birth |-> Field(p, "date_of_birth", NullInt)]

DebtBase_default_settled(p) ==
  [student_id |-> p.student_id,
   subject_id |-> p.subject_id,
   reason |-> Field(p, "reason", NullStr),
   date_occurred |-> Field(p, "date_occurred", NullInt),
   status |-> Field(p, "status", "settled")]

DebtBase(p) ==
  [student_id |-> p.student_id,
   subject_id |-> p.subject_id,
   reason |-> Field(p, "reason", NullStr),
   date_occurred |-> Field(p, "date_occurred", NullInt),
   status |-> Field(p, "status", "active")]

\* Response models (orm_mode): the declared fields read off the ORM object.
FacultyResponse(row) == [id |-> row.id, name |-> row.name]

GroupResponse(row) == [id |-> row.id, name |-> row.name, faculty_id |-> row.faculty_id]

SubjectResponse(row) == [id |-> row.id, name |-> row.name, group_id |-> row.group_id]

StudentResponse(row) ==
  [id |-> row.id, first_name |-> row.first_name, last_name |-> row.last_name,
   patronymic |-> row.patronymic, record_book_number |-> row.record_book_number,
   phone |-> row.phone, email |-> row.email, group_id |-> row.group_id,
   date_of_birth |-> row.date_of_birth]

DebtResponse(row) ==
  [id |-> row.id, student_id |-> row.student_id, subject_id |-> row.subject_id,
   reason |-> row.reason, date_occurred |-> row.date_occurred, status |-> row.status]

----------------------------------------------------------------------------
\* ORM and store.  A table is a function from the ids of its rows to the rows.

EmptyTable == [i \in {} |-> i]

Put(table, row) ==
  [i \in DOMAIN table \cup {row.id} |-> IF i = row.id THEN row ELSE table[i]]

Remove_through(table, id) == [i \in { j \in DOMAIN table : j > id } |-> table[i]]

Remove(table, id) == [i \in DOMAIN table \ {id} |-> table[i]]

\* session.get(Model, id): the rows found, none or one.
session_get_lowest(table, id) ==
  IF id \in DOMAIN table
  THEN {table[CHOOSE i \in DOMAIN table : \A j \in DOMAIN table : i <= j]}
  ELSE {}

session_get_any(table, id) ==
  IF DOMAIN table = {} THEN {} ELSE {table[CHOOSE i \in DOMAIN table : TRUE]}

session_get(table, id) == IF id \in DOMAIN table THEN {table[id]} ELSE {}

IntColumns ==
  {"id", "faculty_id", "group_id", "student_id", "subject_id", "date_of_birth",
   "date_occurred"}

IsNone(f, value) == IF f \in IntColumns THEN value = NullInt ELSE value = NullStr

\* Model(**payload.dict()): the new object, its id not yet assigned.
\* The flush leaves a None attribute out of the INSERT, so a column default
\* applies to it; the id comes from the table's sequence.
Insert(obj, id, defaults) ==
  [f \in DOMAIN obj \cup {"id"} |->
     IF f = "id" THEN id
     ELSE IF f \in DOMAIN defaults /\ IsNone(f, obj[f]) THEN defaults[f]
     ELSE obj[f]]

NoDefaults == [f \in {} |-> f]

\* Column(..., default="active") of Debt.status.
DebtDefaults == [status |-> "active"]

\* for key, value in payload.dict().items(): setattr(db_row, key, value)
setattr_skip_none(row, dict) ==
  [f \in DOMAIN row |->
     IF f \in DOMAIN dict /\ ~IsNone(f, dict[f]) THEN dict[f] ELSE row[f]]

setattr_all(row, dict) ==
  [f \in DOMAIN row |-> IF f \in DOMAIN dict THEN dict[f] ELSE row[f]]

\* session.refresh(obj): the object as the row now stands in the table.
refresh(obj, table) == table[obj.id]

\* Constraints the Column declarations put on the tables.
GroupFk(row) == row.faculty_id = NullInt \/ row.faculty_id \in DOMAIN faculties

SubjectFk(row) == row.group_id = NullInt \/ row.group_id \in DOMAIN groups

StudentFk(row) == row.group_id = NullInt \/ row.group_id \in DOMAIN groups

DebtFk(row) == row.student_id \in DOMAIN students /\ row.subject_id \in DOMAIN subjects

DebtNotNull(row) == row.status # NullStr

\* A row that another table's foreign key points at cannot be deleted
\* (no ON DELETE clause, no ORM relationship: NO ACTION).
FacultyReferenced(id) == \E g \in DOMAIN groups : groups[g].faculty_id = id

GroupReferenced(id) ==
  \/ \E s \in DOMAIN subjects : subjects[s].group_id = id
  \/ \E s \in DOMAIN students : students[s].group_id = id

SubjectReferenced(id) == \E d \in DOMAIN debts : debts[d].subject_id = id

StudentReferenced_unchecked(id) == FALSE

StudentReferenced(id) == \E d \in DOMAIN debts : debts[d].student_id = id

\* The orders in which a statement without ORDER BY may return the rows S.
Orderings(S) ==
  { o \in [1..Cardinality(S) -> S] : \A i, j \in 1..Cardinality(S) : i # j => o[i] # o[j] }

\* Ids a client asks for: every id issued so far and the next, never issued.
Ids(kind) == 1..nextId[kind]

----------------------------------------------------------------------------
\* Answers.

NoPayload == [f \in {} |-> f]

Answer(op, kind, id, payload, code, body) ==
  [op |-> op, kind |-> kind, id |-> id, payload |-> payload, code |-> code, body |-> body]

\* raise HTTPException(status_code=404, detail=...)
NotFound(op, kind, id, payload, detail) ==
  Answer(op, kind, id, payload, 404, [detail |-> detail])

\* An IntegrityError of the commit is not caught: the transaction is rolled
\* back and the framework answers 500.
ServerError(op, kind, id, payload) ==
  Answer(op, kind, id, payload, 500, [detail |-> "Internal Server Error"])

Tick == ops < MaxOps /\ ops' = ops + 1

----------------------------------------------------------------------------
\* Handlers, in the order of src/main.py.  An INSERT draws its id from the
\* table's sequence before the constraints are checked, so a refused INSERT
\* uses an id up as well.

create_group ==
  /\ Tick
  /\ \E group \in GroupPayloads :
       LET db_group == Insert(GroupBase(group), nextId.groups, NoDefaults) IN
       /\ nextId' = [nextId EXCEPT !.groups = @ + 1]
       /\ IF GroupFk(db_group)
          THEN /\ groups' = Put(groups, db_group)
               /\ response' = Answer("create", "groups", db_group.id, group, 200,
                                     GroupResponse(refresh(db_group, groups')))
          ELSE /\ UNCHANGED groups
               /\ response' = ServerError("create", "groups", NullInt, group)
  /\ UNCHANGED <<faculties, subjects, students, debts>>

read_groups ==
  /\ Tick
  /\ \E o \in Orderings(DOMAIN groups) :
       response' = Answer("list", "groups", NullInt, NoPayload, 200,
                          [i \in DOMAIN o |-> GroupResponse(groups[o[i]])])
  /\ UNCHANGED <<tables, nextId>>

read_group ==
  /\ Tick
  /\ \E group_id \in Ids("groups") :
       LET found == session_get(groups, group_id) IN
       response' = IF found = {}
                   THEN NotFound("get", "groups", group_id, NoPayload, "Group not found")
                   ELSE Answer("get", "groups", group_id, NoPayload, 200,
                               GroupResponse(CHOOSE r \in found : TRUE))
  /\ UNCHANGED <<tables, nextId>>

update_group ==
  /\ Tick
  /\ \E group_id \in Ids("groups"), group \in GroupPayloads :
       LET found == session_get(groups, group_id) IN
       IF found = {}
       THEN /\ UNCHANGED groups
            /\ response' = NotFound("update", "groups", group_id, group, "Group not found")
       ELSE LET db_group == setattr_all(CHOOSE r \in found : TRUE, GroupBase(group)) IN
            IF GroupFk(db_group)
            THEN /\ groups' = Put(groups, db_group)
                 /\ response' = Answer("update", "groups", group_id, group, 200,
                                       GroupResponse(refresh(db_group, groups')))
            ELSE /\ UNCHANGED groups
                 /\ response' = ServerError("update", "groups", group_id, group)
  /\ UNCHANGED <<faculties, subjects, students, debts, nextId>>

delete_group ==
  /\ Tick
  /\ \E group_id \in Ids("groups") :
       LET found == session_get(groups, group_id) IN
       IF found = {}
       THEN /\ UNCHANGED groups
            /\ response' = NotFound("delete", "groups", group_id, NoPayload, "Group not found")
       ELSE LET db_group == CHOOSE r \in found : TRUE IN
            IF GroupReferenced(db_group.id)
            THEN /\ UNCHANGED groups
                 /\ response' = ServerError("delete", "groups", group_id, NoPayload)
            ELSE /\ groups' = Remove(groups, db_group.id)
                 /\ response' = Answer("delete", "groups", group_id, NoPayload, 200,
                                       [message |-> "Group deleted"])
  /\ UNCHANGED <<faculties, subjects, students, debts, nextId>>

create_faculty ==
  /\ Tick
  /\ \E faculty \in FacultyPayloads :
       LET db_faculty == Insert(FacultyBase(faculty), nextId.faculties, NoDefaults) IN
       /\ nextId' = [nextId EXCEPT !.faculties = @ + 1]
       /\ IF TRUE
          THEN /\ faculties' = Put(faculties, db_faculty)
               /\ response' = Answer("create", "faculties", db_faculty.id, faculty, 200,
                                     FacultyResponse(refresh(db_faculty, faculties')))
          ELSE /\ UNCHANGED faculties
               /\ response' = ServerError("create", "faculties", NullInt, faculty)
  /\ UNCHANGED <<groups, subjects, students, debts>>

read_faculties ==
  /\ Tick
  /\ \E o \in Orderings(DOMAIN faculties) :
       response' = Answer("list", "faculties", NullInt, NoPayload, 200,
                          [i \in DOMAIN o |-> FacultyResponse(faculties[o[i]])])
  /\ UNCHANGED <<tables, nextId>>

read_faculty ==
  /\ Tick
  /\ \E faculty_id \in Ids("faculties") :
       LET found == session_get(faculties, faculty_id) IN
       response' = IF found = {}
                   THEN NotFound("get", "faculties", faculty_id, NoPayload, "Faculty not found")
                   ELSE Answer("get", "faculties", faculty_id, NoPayload, 200,
                               FacultyResponse(CHOOSE r \in found : TRUE))
  /\ UNCHANGED <<tables, nextId>>

update_faculty ==
  /\ Tick
  /\ \E faculty_id \in Ids("faculties"), faculty \in FacultyPayloads :
       LET found == session_get(faculties, faculty_id) IN
       IF found = {}
       THEN /\ UNCHANGED faculties
            /\ response' = NotFound("update", "faculties", faculty_id, faculty, "Faculty not found")
       ELSE LET db_faculty == setattr_all(CHOOSE r \in found : TRUE, FacultyBase(faculty)) IN
            IF TRUE
            THEN /\ faculties' = Put(faculties, db_faculty)
                 /\ response' = Answer("update", "faculties", faculty_id, faculty, 200,
                                       FacultyResponse(refresh(db_faculty, faculties')))
            ELSE /\ UNCHANGED faculties
                 /\ response' = ServerError("update", "faculties", faculty_id, faculty)
  /\ UNCHANGED <<groups, subjects, students, debts, nextId>>

delete_faculty ==
  /\ Tick
  /\ \E faculty_id \in Ids("faculties") :
       LET found == session_get(faculties, faculty_id) IN
       IF found = {}
       THEN /\ UNCHANGED faculties
            /\ response' = NotFound("delete", "faculties", faculty_id, NoPayload, "Faculty not found")
       ELSE LET db_faculty == CHOOSE r \in found : TRUE IN
            IF FacultyReferenced(db_faculty.id)
            THEN /\ UNCHANGED faculties
                 /\ response' = ServerError("delete", "faculties", faculty_id, NoPayload)
            ELSE /\ faculties' = Remove(faculties, db_faculty.id)
                 /\ response' = Answer("delete", "faculties", faculty_id, NoPayload, 200,
                                       [message |-> "Faculty deleted"])
  /\ UNCHANGED <<groups, subjects, students, debts, nextId>>

create_subject ==
  /\ Tick
  /\ \E subject \in SubjectPayloads :
       LET db_subject == Insert(SubjectBase(subject), nextId.subjects, NoDefaults) IN
       /\ nextId' = [nextId EXCEPT !.subjects = @ + 1]
       /\ IF SubjectFk(db_subject)
          THEN /\ subjects' = Put(subjects, db_subject)
               /\ response' = Answer("create", "subjects", db_subject.id, subject, 200,
                                     SubjectResponse(refresh(db_subject, subjects')))
          ELSE /\ UNCHANGED subjects
               /\ response' = ServerError("create", "subjects", NullInt, subject)
  /\ UNCHANGED <<faculties, groups, students, debts>>

read_subjects ==
  /\ Tick
  /\ \E o \in Orderings(DOMAIN subjects) :
       response' = Answer("list", "subjects", NullInt, NoPayload, 200,
                          [i \in DOMAIN o |-> SubjectResponse(subjects[o[i]])])
  /\ UNCHANGED <<tables, nextId>>

read_subject ==
  /\ Tick
  /\ \E subject_id \in Ids("subjects") :
       LET found == session_get(subjects, subject_id) IN
       response' = IF found = {}
                   THEN NotFound("get", "subjects", subject_id, NoPayload, "Subject not found")
                   ELSE Answer("get", "subjects", subject_id, NoPayload, 200,
                               SubjectResponse(CHOOSE r \in found : TRUE))
  /\ UNCHANGED <<tables, nextId>>

update_subject ==
  /\ Tick
  /\ \E subject_id \in Ids("subjects"), subject \in SubjectPayloads :
       LET found == session_get(subjects, subject_id) IN
       IF found = {}
       THEN /\ UNCHANGED subjects
            /\ response' = NotFound("update", "subjects", subject_id, subject, "Subject not found")
       ELSE LET db_subject == setattr_all(CHOOSE r \in found : TRUE, SubjectBase(subject)) IN
            IF SubjectFk(db_subject)
            THEN /\ subjects' = Put(subjects, db_subject)
                 /\ response' = Answer("update", "subjects", subject_id, subject, 200,
                                       SubjectResponse(refresh(db_subject, subjects')))
            ELSE /\ UNCHANGED subjects
                 /\ response' = ServerError("update", "subjects", subject_id, subject)
  /\ UNCHANGED <<faculties, groups, students, debts, nextId>>

delete_subject ==
  /\ Tick
  /\ \E subject_id \in Ids("subjects") :
       LET found == session_get(subjects, subject_id) IN
       IF found = {}
       THEN /\ UNCHANGED subjects
            /\ response' = NotFound("delete", "subjects", subject_id, NoPayload, "Subject not found")
       ELSE LET db_subject == CHOOSE r \in found : TRUE IN
            IF SubjectReferenced(db_subject.id)
            THEN /\ UNCHANGED subjects
                 /\ response' = ServerError("delete", "subjects", subject_id, NoPayload)
            ELSE /\ subjects' = Remove(subjects, db_subject.id)
                 /\ response' = Answer("delete", "subjects", subject_id, NoPayload, 200,
                                       [message |-> "Subject deleted"])
  /\ UNCHANGED <<faculties, groups, students, debts, nextId>>

create_student ==
  /\ Tick
  /\ \E student \in StudentPayloads :
       LET db_student == Insert(StudentBase(student), nextId.students, NoDefaults) IN
       /\ nextId' = [nextId EXCEPT !.students = @ + 1]
       /\ IF StudentFk(db_student)
          THEN /\ students' = Put(students, db_student)
               /\ response' = Answer("create", "students", db_student.id, student, 200,
                                     StudentResponse(refresh(db_student, students')))
          ELSE /\ UNCHANGED students
               /\ response' = ServerError("create", "students", NullInt, student)
  /\ UNCHANGED <<faculties, groups, subjects, debts>>

read_students ==
  /\ Tick
  /\ \E o \in Orderings(DOMAIN students) :
       response' = Answer("list", "students", NullInt, NoPayload, 200,
                          [i \in DOMAIN o |-> StudentResponse(students[o[i]])])
  /\ UNCHANGED <<tables, nextId>>

read_student ==
  /\ Tick
  /\ \E student_id \in Ids("students") :
       LET found == session_get(students, student_id) IN
       response' = IF found = {}
                   THEN NotFound("get", "students", student_id, NoPayload, "Student not found")
                   ELSE Answer("get", "students", student_id, NoPayload, 200,
                               StudentResponse(CHOOSE r \in found : TRUE))
  /\ UNCHANGED <<tables, nextId>>

update_student ==
  /\ Tick
  /\ \E student_id \in Ids("students"), student \in StudentPayloads :
       LET found == session_get(students, student_id) IN
       IF found = {}
       THEN /\ UNCHANGED students
            /\ response' = NotFound("update", "students", student_id, student, "Student not found")
       ELSE LET db_student == setattr_all(CHOOSE r \in found : TRUE, StudentBase(student)) IN
            IF StudentFk(db_student)
            THEN /\ students' = Put(students, db_student)
                 /\ response' = Answer("update", "students", student_id, student, 200,
                                       StudentResponse(refresh(db_student, students')))
            ELSE /\ UNCHANGED students
                 /\ response' = ServerError("update", "students", student_id, student)
  /\ UNCHANGED <<faculties, groups, subjects, debts, nextId>>

delete_student ==
  /\ Tick
  /\ \E student_id \in Ids("students") :
       LET found == session_get(students, student_id) IN
       IF found = {}
       THEN /\ UNCHANGED students
            /\ response' = NotFound("delete", "students", student_id, NoPayload, "Student not found")
       ELSE LET db_student == CHOOSE r \in found : TRUE IN
            IF StudentReferenced(db_student.id)
            THEN /\ UNCHANGED students
                 /\ response' = ServerError("delete", "students", student_id, NoPayload)
            ELSE /\ students' = Remove(students, db_student.id)
                 /\ response' = Answer("delete", "students", student_id, NoPayload, 200,
                                       [message |-> "Student deleted"])
  /\ UNCHANGED <<faculties, groups, subjects, debts, nextId>>

create_debt ==
  /\ Tick
  /\ \E debt \in DebtPayloads :
       LET db_debt == Insert(DebtBase(debt), nextId.debts, DebtDefaults) IN
       /\ nextId' = [nextId EXCEPT !.debts = @ + 1]
       /\ IF DebtFk(db_debt) /\ DebtNotNull(db_debt)
          THEN /\ debts' = Put(debts, db_debt)
               /\ response' = Answer("create", "debts", db_debt.id, debt, 200,
                                     DebtResponse(refresh(db_debt, debts')))
          ELSE /\ UNCHANGED debts
               /\ response' = ServerError("create", "debts", NullInt, debt)
  /\ UNCHANGED <<faculties, groups, subjects, students>>

read_debts ==
  /\ Tick
  /\ \E o \in Orderings(DOMAIN debts) :
       response' = Answer("list", "debts", NullInt, NoPayload, 200,
                          [i \in DOMAIN o |-> DebtResponse(debts[o[i]])])
  /\ UNCHANGED <<tables, nextId>>

read_debt ==
  /\ Tick
  /\ \E debt_id \in Ids("debts") :
       LET found == session_get(debts, debt_id) IN
       response' = IF found = {}
                   THEN NotFound("get", "debts", debt_id, NoPayload, "Debt not found")
                   ELSE Answer("get", "debts", debt_id, NoPayload, 200,
                               DebtResponse(CHOOSE r \in found : TRUE))
  /\ UNCHANGED <<tables, nextId>>

update_debt ==
  /\ Tick
  /\ \E debt_id \in Ids("debts"), debt \in DebtPayloads :
       LET found == session_get(debts, debt_id) IN
       IF found = {}
       THEN /\ UNCHANGED debts
            /\ response' = NotFound("update", "debts", debt_id, debt, "Debt not found")
       ELSE LET db_debt == setattr_all(CHOOSE r \in found : TRUE, DebtBase(debt)) IN
            IF DebtFk(db_debt) /\ DebtNotNull(db_debt)
            THEN /\ debts' = Put(debts, db_debt)
                 /\ response' = Answer("update", "debts", debt_id, debt, 200,
                                       DebtResponse(refresh(db_debt, debts')))
            ELSE /\ UNCHANGED debts
                 /\ response' = ServerError("update", "debts", debt_id, debt)
  /\ UNCHANGED <<faculties, groups, subjects, students, nextId>>

\* db_debt.status = "settled"
Settled_and_dated(row) == [row EXCEPT !.status = "settled", !.date_occurred = NullInt]

Settled(row) == [row EXCEPT !.status = "settled"]

settle_debt ==
  /\ Tick
  /\ \E debt_id \in Ids("debts") :
       LET found == session_get(debts, debt_id) IN
       IF found = {}
       THEN /\ UNCHANGED debts
            /\ response' = NotFound("settle", "debts", debt_id, NoPayload, "Debt not found")
       ELSE LET db_debt == Settled(CHOOSE r \in found : TRUE) IN
            /\ debts' = Put(debts, db_debt)
            /\ response' = Answer("settle", "debts", debt_id, NoPayload, 200,
                                  [message |-> "Debt marked as settled"])
  /\ UNCHANGED <<faculties, groups, subjects, students, nextId>>

delete_debt ==
  /\ Tick
  /\ \E debt_id \in Ids("debts") :
       LET found == session_get(debts, debt_id) IN
       IF found = {}
       THEN /\ UNCHANGED debts
            /\ response' = NotFound("delete", "debts", debt_id, NoPayload, "Debt not found")
       ELSE LET db_debt == CHOOSE r \in found : TRUE IN
            /\ debts' = Remove(debts, db_debt.id)
            /\ response' = Answer("delete", "debts", debt_id, NoPayload, 200,
                                  [message |-> "Debt deleted"])
  /\ UNCHANGED <<faculties, groups, subjects, students, nextId>>

----------------------------------------------------------------------------
\* Reports.

\* L LEFT OUTER JOIN R: On holds the pairs <<l, r>> that satisfy the ON
\* clause; the result has every such pair, and every row of L that is in no
\* pair, extended by NULL.
LeftJoin(L, On) ==
  { Append(x[1], x[2]) : x \in On }
    \cup { Append(l, NullInt) : l \in { m \in L : \A x \in On : x[1] # m } }

\* Faculty JOIN Group JOIN Student JOIN Debt, all outer: rows <<f, g, s, d>>.
FacultyJoin ==
  LET F == { <<f>> : f \in DOMAIN faculties }
      FG == LeftJoin(F, { x \in F \X DOMAIN groups :
                            groups[x[2]].faculty_id = x[1][1] })
      FGS == LeftJoin(FG, { x \in FG \X DOMAIN students :
                              x[1][2] # NullInt /\ students[x[2]].group_id = x[1][2] })
  IN LeftJoin(FGS, { x \in FGS \X DOMAIN debts :
                       x[1][3] # NullInt /\ debts[x[2]].student_id = x[1][3] })

\* select(Faculty.name, func.count(Debt.id)) ... .group_by(Faculty.name)
FacultyCounts ==
  { [faculty |-> n,
     debt_count |-> Cardinality({ r \in FacultyJoin :
                                   faculties[r[1]].name = n /\ r[4] # NullInt })]
    : n \in { faculties[r[1]].name : r \in FacultyJoin } }

debts_by_faculty ==
  /\ Tick
  /\ \E o \in Orderings(FacultyCounts) :
       response' = Answer("debts_by_faculty", "faculties", NullInt, NoPayload, 200, o)
  /\ UNCHANGED <<tables, nextId>>

\* Student JOIN Debt (outer) WHERE Student.group_id == group_id: rows <<s, d>>.
GroupJoin(group_id) ==
  LET S == { <<s>> : s \in DOMAIN students }
      SD == LeftJoin(S, { x \in S \X DOMAIN debts : debts[x[2]].student_id = x[1][1] })
  IN { r \in SD : students[r[1]].group_id = group_id }

\* select(Student.last_name, Student.first_name, func.count(Debt.id))
\*   ... .group_by(Student.last_name, Student.first_name)
\* and the f"{row[0]} {row[1]}" of the answer.
GroupCounts(group_id) ==
  LET key(r) == <<students[r[1]].last_name, students[r[1]].first_name>> IN
  { [student |-> k[1] \o " " \o k[2],
     debt_count |-> Cardinality({ r \in GroupJoin(group_id) :
                                   key(r) = k /\ r[2] # NullInt })]
    : k \in { key(r) : r \in GroupJoin(group_id) } }

debts_by_group ==
  /\ Tick
  /\ \E group_id \in Ids("groups") :
       \E o \in Orderings(GroupCounts(group_id)) :
         response' = Answer("debts_by_group", "groups", group_id, NoPayload, 200, o)
  /\ UNCHANGED <<tables, nextId>>

----------------------------------------------------------------------------
\* startup(): create_all creates the tables that do not exist yet and keeps
\* those that do, with their rows.  The database is either new, or holds what
\* an earlier run of the service stored: one faculty, one group, one subject
\* and one student, each written by its create handler.

NewDatabase ==
  [faculties |-> EmptyTable, groups |-> EmptyTable, subjects |-> EmptyTable,
   students |-> EmptyTable, debts |-> EmptyTable,
   nextId |-> [faculties |-> 1, groups |-> 1, subjects |-> 1, students |-> 1, debts |-> 1]]

UsedDatabase ==
  [faculties |-> Put(EmptyTable, Insert(FacultyBase([name |-> "Math"]), 1, NoDefaults)),
   groups |-> Put(EmptyTable,
                  Insert(GroupBase([name |-> "G1", faculty_id |-> 1]), 1, NoDefaults)),
   subjects |-> Put(EmptyTable,
                    Insert(SubjectBase([name |-> "Algebra", group_id |-> 1]), 1, NoDefaults)),
   students |-> Put(EmptyTable,
                    Insert(StudentBase([first_name |-> "Ivan", last_name |-> "Petrov",
                                        record_book_number |-> "RB2", group_id |-> 1]),
                           1, NoDefaults)),
   debts |-> EmptyTable,
   nextId |-> [faculties |-> 2, groups |-> 2, subjects |-> 2, students |-> 2, debts |-> 1]]

Init ==
  /\ \E db \in {NewDatabase, UsedDatabase} :
       /\ faculties = db.faculties
       /\ groups = db.groups
       /\ subjects = db.subjects
       /\ students = db.students
       /\ debts = db.debts
       /\ nextId = db.nextId
  /\ response = Answer("startup", "", NullInt, NoPayload, 200, NoPayload)
  /\ ops = 0

Next ==
  \/ create_group \/ read_groups \/ read_group \/ update_group \/ delete_group
  \/ create_faculty \/ read_faculties \/ read_faculty \/ update_faculty \/ delete_faculty
  \/ create_subject \/ read_subjects \/ read_subject \/ update_subject \/ delete_subject
  \/ create_student \/ read_students \/ read_student \/ update_student \/ delete_student
  \/ create_debt \/ read_debts \/ read_debt \/ update_debt \/ settle_debt \/ delete_debt
  \/ debts_by_faculty \/ debts_by_group

Spec == Init /\ [][Next]_vars

----------------------------------------------------------------------------
\* Properties.

Kinds == {"faculties", "groups", "subjects", "students", "debts"}

Table(kind) ==
  CASE kind = "faculties" -> faculties
    [] kind = "groups" -> groups
    [] kind = "subjects" -> subjects
    [] kind = "students" -> students
    [] kind = "debts" -> debts
    [] OTHER -> EmptyTable

TableNext(kind) ==
  CASE kind = "faculties" -> faculties'
    [] kind = "groups" -> groups'
    [] kind = "subjects" -> subjects'
    [] kind = "students" -> students'
    [] kind = "debts" -> debts'
    [] OTHER -> EmptyTable

\* A step that serves one request; its answer is response'.
Served == ops' = ops + 1

ServedOp(op) == Served /\ response'.op = op

OtherTablesKept(kind) == \A k \in Kinds \ {kind} : TableNext(k) = Table(k)

OtherRowsKept(kind, id) ==
  \A j \in DOMAIN Table(kind) \ {id} :
    j \in DOMAIN TableNext(kind) /\ TableNext(kind)[j] = Table(kind)[j]

\* The value a body gives a mutable field: its own, or the default of a field
\* it leaves out.
Given(payload, f) ==
  IF f \in DOMAIN payload THEN payload[f]
  ELSE IF f = "status" THEN "active"
  ELSE IF f \in IntColumns THEN NullInt
  ELSE NullStr

\* C1: a Get that directly follows a successful Create, for the id the Create
\* returned, answers with the entity the Create returned, id included.
CreateGetRoundTrip ==
  [][ ( /\ response.op = "create"
        /\ response.code = 200
        /\ ServedOp("get")
        /\ response'.kind = response.kind
        /\ response'.id = response.body.id )
      => ( /\ response'.code = 200
           /\ response'.body = response.body
           /\ response.body.id = response.id ) ]_vars

\* A debt read back with the status the column default gave it, as the second
\* request on a database that held no debt: the first request created it.
CreateGetWitness ==
  /\ ops = 2
  /\ response.op = "get"
  /\ response.kind = "debts"
  /\ response.code = 200
  /\ response.body.reason = "lab"
  /\ response.body.status = "active"

\* C2: Update of an id that is not in the table answers 404 and leaves every
\* table as it was.
UpdateMissingNotFound ==
  [][ ( /\ ServedOp("update")
        /\ response'.id \notin DOMAIN Table(response'.kind) )
      => ( /\ response'.code = 404
           /\ tables' = tables ) ]_vars

UpdateMissingWitness ==
  /\ response.op = "update"
  /\ response.code = 404
  /\ response.id \notin DOMAIN Table(response.kind)
  /\ DOMAIN Table(response.kind) # {}

SettleChangesOnlyStatus ==
  [][ ServedOp("settle")
      => LET id == response'.id IN
         IF id \in DOMAIN debts
         THEN /\ response'.code = 200
              /\ DOMAIN debts' = DOMAIN debts
              /\ debts'[id].status = "settled"
              /\ \A f \in DOMAIN debts[id] \ {"status"} : debts'[id][f] = debts[id][f]
              /\ OtherRowsKept("debts", id)
              /\ OtherTablesKept("debts")
         ELSE /\ response'.code = 404
              /\ tables' = tables ]_vars

\* Only a body with status "settled" gives the reason "exam": the debt was
\* settled already when this Settle came.
SettleAgainWitness ==
  /\ response.op = "settle"
  /\ response.code = 200
  /\ debts[response.id].reason = "exam"
  /\ debts[response.id].status = "settled"

\* C5: every List answers in the documented order.
Alphabet ==
  <<"Algebra", "Anna", "Belova", "G1", "G2", "Ivan", "Math", "Optics", "Petrov", "Physics">>

Rank(str) == CHOOSE i \in 1..Len(Alphabet) : Alphabet[i] = str

ByName(a, b) == Rank(a.name) <= Rank(b.name)

ByPerson(a, b) ==
  \/ Rank(a.last_name) < Rank(b.last_name)
  \/ /\ a.last_name = b.last_name
     /\ Rank(a.first_name) <= Rank(b.first_name)

ByDateDesc(a, b) ==
  \/ a.date_occurred = NullInt
  \/ b.date_occurred = NullInt
  \/ a.date_occurred >= b.date_occurred

ListInDocumentedOrder ==
  response.op = "list" =>
    /\ { response.body[i].id : i \in DOMAIN response.body } = DOMAIN Table(response.kind)
    /\ \A i, j \in DOMAIN response.body :
         i < j => CASE response.kind = "students" -> ByPerson(response.body[i], response.body[j])
                    [] response.kind = "debts" -> ByDateDesc(response.body[i], response.body[j])
                    [] OTHER -> ByName(response.body[i], response.body[j])

\* C6: the debts-by-faculty report has one entry per faculty row, with the
\* number of active debts of the students of the faculty's groups, in
\* descending order of that number.
ActiveDebtsOfFaculty(f) ==
  Cardinality({ d \in DOMAIN debts :
                  /\ debts[d].status = "active"
                  /\ debts[d].student_id \in DOMAIN students
                  /\ students[debts[d].student_id].group_id \in DOMAIN groups
                  /\ groups[students[debts[d].student_id].group_id].faculty_id = f })

ByCountDesc(a, b) == a.debt_count >= b.debt_count

FacultyReportAsDocumented ==
  response.op = "debts_by_faculty" =>
    /\ \A i, j \in DOMAIN response.body :
         i < j => ByCountDesc(response.body[i], response.body[j])
    /\ \E o \in Orderings(DOMAIN faculties) :
         /\ DOMAIN o = DOMAIN response.body
         /\ \A i \in DOMAIN o :
              response.body[i] = [faculty |-> faculties[o[i]].name,
                                  debt_count |-> ActiveDebtsOfFaculty(o[i])]

\* C7: the debts-by-group report has one entry per student row of the group,
\* with the number of the student's active debts, in descending order of
\* that number.
ActiveDebtsOfStudent(s) ==
  Cardinality({ d \in DOMAIN debts :
                  debts[d].status = "active" /\ debts[d].student_id = s })

GroupReportAsDocumented ==
  response.op = "debts_by_group" =>
    /\ \A i, j \in DOMAIN response.body :
         i < j => ByCountDesc(response.body[i], response.body[j])
    /\ \E o \in Orderings({ s \in DOMAIN students :
                             students[s].group_id = response.id }) :
         /\ DOMAIN o = DOMAIN response.body
         /\ \A i \in DOMAIN o :
              response.body[i] =
                [student |-> students[o[i]].last_name \o " " \o students[o[i]].first_name,
                 debt_count |-> ActiveDebtsOfStudent(o[i])]

\* C8: Delete of a missing id answers 404 and changes nothing; Delete of a row
\* that no row refers to removes that row and no other; an id once issued and
\* no longer in its table never comes back, and Get, Update and Delete of an
\* id that is not in the table answer 404, List leaves it out.
RefersTo(kind, id) ==
  CASE kind = "faculties" -> \E g \in DOMAIN groups : groups[g].faculty_id = id
    [] kind = "groups" ->
         \/ \E s \in DOMAIN subjects : subjects[s].group_id = id
         \/ \E s \in DOMAIN students : students[s].group_id = id
    [] kind = "subjects" -> \E d \in DOMAIN debts : debts[d].subject_id = id
    [] kind = "students" -> \E d \in DOMAIN debts : debts[d].student_id = id
    [] OTHER -> FALSE

DeleteIsPhysical ==
  [][ Served =>
      LET kind == response'.kind
          id == response'.id
      IN /\ ( response'.op = "delete" /\ id \notin DOMAIN Table(kind) )
              => ( response'.code = 404 /\ tables' = tables )
         /\ ( response'.op = "delete" /\ id \in DOMAIN Table(kind) /\ ~RefersTo(kind, id) )
              => ( /\ response'.code = 200
                   /\ DOMAIN TableNext(kind) = DOMAIN Table(kind) \ {id}
                   /\ OtherRowsKept(kind, id)
                   /\ OtherTablesKept(kind) )
         /\ ( response'.op \in {"get", "update", "delete"} /\ id \notin DOMAIN Table(kind) )
              => response'.code = 404
         /\ response'.op = "list"
              => { response'.body[i].id : i \in DOMAIN response'.body } = DOMAIN Table(kind)
         /\ \A k \in Kinds :
              /\ \A j \in DOMAIN Table(k) : j < nextId[k]
              /\ \A j \in 1..(nextId[k] - 1) :
                   j \notin DOMAIN Table(k) => j \notin DOMAIN TableNext(k) ]_vars

\* A Get of a faculty id that was issued and is gone: no INSERT into faculties
\* fails, so the row was stored, and it was deleted.
DeleteIsPhysicalWitness ==
  /\ response.op = "get"
  /\ response.kind = "faculties"
  /\ response.code = 404
  /\ response.id < nextId.faculties

\* C9: every stored debt refers to a student row and a subject row that are
\* in their tables.
DebtReferencesExist ==
  \A d \in DOMAIN debts :
    /\ debts[d].student_id \in DOMAIN students
    /\ debts[d].subject_id \in DOMAIN subjects

\* A Delete of a student that a debt refers to was refused.
DebtReferencesWitness ==
  /\ response.op = "delete"
  /\ response.kind = "students"
  /\ response.code = 500
  /\ \E d \in DOMAIN debts : debts[d].student_id = response.id

\* C10: a debt created without a status is stored and returned as "active";
\* the status of a stored debt changes only by a Settle or an Update of that
\* debt, and a Get answers with the stored status.
DebtStatusDefault ==
  [][ Served =>
      /\ ( /\ response'.op = "create"
           /\ response'.kind = "debts"
           /\ response'.code = 200
           /\ "status" \notin DOMAIN response'.payload )
         => ( /\ response'.body.status = "active"
              /\ response'.id \in DOMAIN debts'
              /\ debts'[response'.id].status = "active" )
      /\ \A d \in DOMAIN debts \cap DOMAIN debts' :
           debts'[d].status # debts[d].status
             => ( /\ response'.op \in {"settle", "update"}
                  /\ response'.kind = "debts"
                  /\ response'.id = d )
      /\ ( response'.op = "get" /\ response'.kind = "debts" /\ response'.code = 200 )
         => response'.body.status = debts[response'.id].status ]_vars

\* Only the body without a status gives the date 1 and no reason; the debt
\* was created by the first request and is read by the second.
DebtStatusDefaultWitness ==
  /\ ops = 2
  /\ response.op = "get"
  /\ response.kind = "debts"
  /\ response.code = 200
  /\ response.body.date_occurred = 1
  /\ response.body.reason = NullStr
  /\ response.body.status = "active"

====
